---- MODULE Spec2Model ----
(***************************************************************************)
(* A model of svl: the bounded-concurrency HTTP client (core/client.rs),   *)
(* the tokenizer (core/text.rs), the Stats aggregate (core/stats.rs), the  *)
(* transactional store wrapper (core/db.rs), the query parser and         *)
(* interpreter (core/queries.rs), the page resolvers of the client, the    *)
(* search state of the desktop UI (ui/search.rs, ui/app.rs) and the        *)
(* ingestion driver fetch_and_store_stats (cli/main.rs).                   *)
(*                                                                         *)
(* Strings are sequences of one-character strings, so that splitting,     *)
(* trimming and case folding are computed character by character.          *)
(* Option<T> is a sequence of length 0 (None) or 1 (Some(v)).              *)
(***************************************************************************)
EXTENDS Integers, Sequences, FiniteSets, TLC

VARIABLES
    \* ---- HttpStatsClient under concurrent callers (SpecClient)
    permits,      \* available permits of HttpStatsClient.semaphore
    tpc,          \* tpc[t]: where caller t stands inside its fetch operation
    top,          \* top[t]: the operation caller t runs
    tholds,       \* tholds[t]: caller t owns a SemaphorePermit
    tres,         \* tres[t]: result of the caller's last finished operation
    \* ---- Stats values (SpecStats, SpecPersist, Spec)
    stats,        \* the Stats being built / persisted
    other,        \* a second Stats, argument of merge
    folded,       \* history: contents folded into `stats`, in fold order
    nwords,       \* number of direct add_word calls made (bounded)
    direct,       \* history: how often add_word was called directly with (receiver, word)
    \* ---- the store and the open write transaction (SpecPersist, Spec)
    store,        \* committed relations Author, Text, Word
    tx,           \* Option<pending writes of the open MultiTransaction>
    store0,       \* history: the store when the current store_in_db began
    wtodo,        \* Word writes store_in_db still has to issue
    storing,      \* history: store_in_db has been entered
    wlog,         \* history: how often store_in_db issued each write
    \* ---- fetch_and_store_stats (Spec)
    pc,           \* position of the ingestion run
    authors,      \* Vec<AuthorInfo> of the run
    idx,          \* loop index of the loop the run is in
    docs,         \* the (author_id, url) list built at main.rs:156-163
    inflight,     \* requests whose permit is held and body is not yet read
    completed,    \* history: documents in the order their fetch completed
    failed,       \* history: documents whose fetch failed
    maxinflight,  \* history: the largest number of requests seen in flight
    \* ---- the query interpreter (SpecParse, SpecPersist)
    query,        \* the line handed to Query::parse
    presult,      \* Option<Result<Query, QueryError>>: what parse returned
    qrows,        \* Option<(Query, QueryResult, scripts run)>: the last query evaluated
    \* ---- the pages read by get_authors and get_texts (SpecResolve)
    page,         \* the HTML document handed to the selector
    listing,      \* Option<outcome of get_authors / get_texts on the page>
    \* ---- the search application (SpecUi)
    app,          \* the App: current kind and mode, one SearchState per kind
    sent,         \* history: the searches issued by search_command, in order
    outcomes,     \* outcomes[i]: "pending" or how the i-th search was delivered
    nedits        \* number of input and setting messages handled (bounded)

vars == <<permits, tpc, top, tholds, tres, stats, other, folded, nwords, direct,
          store, tx, store0, wtodo, storing, wlog, pc, authors, idx, docs,
          inflight, completed, failed, maxinflight, query, presult, qrows,
          page, listing, app, sent, outcomes, nedits>>

clientVars == <<permits, tpc, top, tholds, tres>>
statsVars  == <<stats, other, folded, nwords, direct>>
dbVars     == <<store, tx, store0, wtodo, storing, wlog>>
runVars    == <<pc, authors, idx, docs, inflight, completed, failed, maxinflight>>
queryVars  == <<query, presult, qrows>>
resolveVars == <<page, listing>>
uiVars     == <<app, sent, outcomes, nedits>>

----------------------------------------------------------------------------
(* Bounds of the model *)

\* Permits of the semaphore.  The program's value is 25 (client.rs:15); the
\* model scales it down so that more callers than permits can be explored.
MAX_CONCURRENT_REQUESTS == 2
\* Concurrent callers of one HttpStatsClient.
NumTasks == 3
\* Documents one Stats may hold.
MaxTexts == 2
\* Documents the merge argument may hold.
MaxOtherTexts == 1
\* Direct add_word calls.
MaxAddWord == 1
\* Authors on the catalogue page, works on an author page.
MaxAuthors == 2
MaxWorks == 2
\* Works the whole catalogue lists.
MaxDocs == 3

----------------------------------------------------------------------------
(* Option *)

None == <<>>
Some(v) == <<v>>
IsSome(o) == Len(o) = 1
Unwrap(o) == o[1]

RECURSIVE Sum(_, _)
\* Sum of f[x] over the x of S
Sum(f, S) == IF S = {} THEN 0
             ELSE LET x == CHOOSE y \in S : TRUE IN f[x] + Sum(f, S \ {x})

----------------------------------------------------------------------------
(* core/text.rs: characters, Text, the tokenizer *)

Lowercase == {"a", "b", "p", "n", "s"}
Uppercase == {"A", "B"}
Digits == {"1", "2"}
Whitespace == {" ", "\t"}
AsciiPunctuation == {"<", ">", "/", "&", ";", ".", "?", "!"}

is_whitespace(c) == c \in Whitespace
is_ascii_punctuation(c) == c \in AsciiPunctuation
is_alphabetic(c) == c \in Lowercase \cup Uppercase
is_alphanumeric(c) == is_alphabetic(c) \/ c \in Digits

\* char::to_lowercase
char_to_lowercase(c) == CASE c = "A" -> "a"
                          [] c = "B" -> "b"
                          [] OTHER -> c

\* String::to_lowercase
to_lowercase(s) == [i \in 1..Len(s) |-> char_to_lowercase(s[i])]

\* Text::word_splitter
word_splitter(c) == is_whitespace(c) \/ is_ascii_punctuation(c) \/ ~is_alphanumeric(c)

RECURSIVE SplitFrom(_, _, _)
\* str::split(pred): the fragments between separator characters, the empty
\* ones included; `cur` is the fragment being read, `i` the next position.
SplitFrom(s, i, cur) ==
    IF i > Len(s) THEN <<cur>>
    ELSE IF word_splitter(s[i]) THEN <<cur>> \o SplitFrom(s, i + 1, <<>>)
    ELSE SplitFrom(s, i + 1, Append(cur, s[i]))

split(s) == SplitFrom(s, 1, <<>>)

RECURSIVE TrimStart(_)
TrimStart(s) == IF s # <<>> /\ is_whitespace(s[1]) THEN TrimStart(Tail(s)) ELSE s

RECURSIVE TrimEnd(_)
TrimEnd(s) == IF s # <<>> /\ is_whitespace(s[Len(s)])
              THEN TrimEnd(SubSeq(s, 1, Len(s) - 1)) ELSE s

\* str::trim
trim(s) == TrimEnd(TrimStart(s))

Nbsp == <<"&", "n", "b", "s", "p", ";">>

RECURSIVE ReplaceNbsp(_)
\* str::replace("&nbsp;", " ")
ReplaceNbsp(s) ==
    IF s = <<>> THEN <<>>
    ELSE IF Len(s) >= 6 /\ SubSeq(s, 1, 6) = Nbsp
         THEN <<" ">> \o ReplaceNbsp(SubSeq(s, 7, Len(s)))
         ELSE <<s[1]>> \o ReplaceNbsp(Tail(s))

\* chars().filter(|c| c.is_alphabetic()).collect()
FilterAlphabetic(s) == SelectSeq(s, is_alphabetic)

\* scraper::Html::parse_fragment(s).root_element().text().collect(): the
\* argument holds alphabetic characters only (no '<', no '&'), which the HTML
\* parser reads as one text node; the empty string has no text node.
HtmlText(s) == s

\* Text::trim_latin_word, as the sequence filter_map keeps: <<>> for None,
\* <<w>> for Some(Word(w)).
trim_latin_word(word) ==
    IF word # <<>> /\ word[1] \in {"<", ">"} THEN None
    ELSE LET trimmed == ReplaceNbsp(trim(word)) IN
         IF trimmed = <<>> THEN None
         ELSE Some(to_lowercase(HtmlText(FilterAlphabetic(trimmed))))

RECURSIVE FilterMapWords(_)
FilterMapWords(frags) ==
    IF frags = <<>> THEN <<>>
    ELSE trim_latin_word(Head(frags)) \o FilterMapWords(Tail(frags))

\* Text::words
words(text) == FilterMapWords(split(text))

\* Text::new
Text_new(url, text) == [id |-> None, url |-> url, text |-> text, author_id |-> None]

\* Text::set_id
set_id(text, id) == [text EXCEPT !.id = Some(id)]

\* Word::is_empty
is_empty(word) == word = <<>>

----------------------------------------------------------------------------
(* core/stats.rs: WordStats and Stats *)

EmptyMap == [x \in {} |-> 0]

\* The log of calls `log`, with the call w counted once more
Logged(log, w) ==
    [x \in DOMAIN log \cup {w} |-> IF x = w THEN (IF w \in DOMAIN log THEN log[w] ELSE 0) + 1 ELSE log[x]]

\* WordStats::new
WordStats_new(text_id, word) ==
    [text_ids |-> {text_id}, word |-> word, count |-> EmptyMap]

\* Faulty variant of incr_count: the per-document count is not incremented
incr_count_skip(ws, text_id) == ws

\* WordStats::incr_count
incr_count(ws, text_id) ==
    [ws EXCEPT !.count =
        [t \in DOMAIN ws.count \cup {text_id} |->
            IF t = text_id
            THEN (IF t \in DOMAIN ws.count THEN ws.count[t] ELSE 0) + 1
            ELSE ws.count[t]]]

\* Faulty variant of count_text: the document is counted but not entered
\* in text_ids
count_text_untracked(ws, text_id) == incr_count(ws, text_id)

\* WordStats::count_text
count_text(ws, text_id) ==
    incr_count([ws EXCEPT !.text_ids = @ \cup {text_id}], text_id)

\* Faulty variant of count: the count over all documents
count_global(ws, text_id) == Sum(ws.count, DOMAIN ws.count)

\* WordStats::count
count(ws, text_id) == IF text_id \in DOMAIN ws.count THEN ws.count[text_id] ELSE 0

\* WordStats::global_count
global_count(ws) == Sum(ws.count, DOMAIN ws.count)

\* Stats::new
Stats_new == [texts |-> <<>>, word_count |-> 0, words |-> EmptyMap]

\* Stats::unique_word_count
unique_word_count(s) == Cardinality(DOMAIN s.words)

\* Faulty variants of add_word: the word is entered in the table but
\* word_count is not incremented; the empty word is recorded like any other
add_word_uncounted(s, text_id, word) ==
    IF is_empty(word) THEN s
    ELSE [s EXCEPT
            !.words = [w \in DOMAIN s.words \cup {word} |->
                IF w = word
                THEN count_text(IF w \in DOMAIN s.words THEN s.words[w]
                                ELSE WordStats_new(text_id, word), text_id)
                ELSE s.words[w]]]

add_word_keep_empty(s, text_id, word) ==
    [s EXCEPT
        !.word_count = @ + 1,
        !.words = [w \in DOMAIN s.words \cup {word} |->
            IF w = word
            THEN count_text(IF w \in DOMAIN s.words THEN s.words[w]
                            ELSE WordStats_new(text_id, word), text_id)
            ELSE s.words[w]]]

\* Stats::add_word
add_word(s, text_id, word) ==
    IF is_empty(word) THEN s
    ELSE [s EXCEPT
            !.word_count = @ + 1,
            !.words = [w \in DOMAIN s.words \cup {word} |->
                IF w = word
                THEN count_text(IF w \in DOMAIN s.words THEN s.words[w]
                                ELSE WordStats_new(text_id, word), text_id)
                ELSE s.words[w]]]

RECURSIVE AddWords(_, _, _)
\* the loop at stats.rs:45-47
AddWords(s, id, ws) ==
    IF ws = <<>> THEN s ELSE AddWords(add_word(s, id, Head(ws)), id, Tail(ws))

\* Faulty variants of next_id: numbered from 0; numbered by the size of the
\* word table instead of the text list
next_id_zero(s) == Len(s.texts)

next_id_by_words(s) == Cardinality(DOMAIN s.words) + 1

\* The TextId add_text assigns: TextId::from(self.texts.len() + 1)
next_id(s) == Len(s.texts) + 1

\* Stats::add_text
add_text(s, text) ==
    LET id == next_id(s)
        ws == words(text.text)
        s1 == [s EXCEPT !.texts = Append(@, set_id(text, id))]
    IN AddWords(s1, id, ws)

RECURSIVE AddTexts(_, _)
AddTexts(s, texts) ==
    IF texts = <<>> THEN s ELSE AddTexts(add_text(s, Head(texts)), Tail(texts))

\* Faulty variant of merge: the documents are appended as they are and the
\* counters added, nothing is re-numbered or re-tokenized
merge_append(s, o) ==
    [texts |-> s.texts \o o.texts,
     word_count |-> s.word_count + o.word_count,
     words |-> s.words]

\* Stats::merge
merge(s, o) == AddTexts(s, o.texts)

----------------------------------------------------------------------------
(* Inputs *)

\* "a b", "B.a a", "a1 2", "", "<p>a"
Doc1 == <<"a", " ", "b">>
Doc2 == <<"B", ".", "a", " ", "a">>
Doc3 == <<"a", "1", " ", "2">>
Doc4 == <<>>
Doc5 == <<"<", "p", ">", "a">>
Contents == {Doc1, Doc2, Doc3, Doc4, Doc5}
\* Contents of the documents of the merge argument
OtherContents == {Doc2, Doc3}

\* Words and text ids handed to add_word directly
SampleWords == {<<>>, <<"a">>, <<"n">>}
SampleTextIds == {1, 2}

\* The url of a Text built by hand (stats.rs:180)
SampleUrl == <<"URL">>

Tasks == 1..NumTasks

\* The state of the parts a specification does not use
ClientIdle ==
    /\ permits = MAX_CONCURRENT_REQUESTS
    /\ tpc = [t \in Tasks |-> "idle"]
    /\ top = [t \in Tasks |-> "none"]
    /\ tholds = [t \in Tasks |-> FALSE]
    /\ tres = [t \in Tasks |-> "none"]

StatsEmpty ==
    /\ stats = Stats_new
    /\ other = Stats_new
    /\ folded = <<>>
    /\ nwords = 0
    /\ direct = EmptyMap

EmptyStore == [Author |-> EmptyMap, Text |-> EmptyMap, Word |-> EmptyMap]

DbIdle ==
    /\ store = EmptyStore
    /\ tx = None
    /\ store0 = EmptyStore
    /\ wtodo = {}
    /\ storing = FALSE
    /\ wlog = EmptyMap

QueryIdle ==
    /\ query = <<>>
    /\ presult = None
    /\ qrows = None

ResolveIdle ==
    /\ page = <<>>
    /\ listing = None

UiIdle ==
    /\ app = <<>>
    /\ sent = <<>>
    /\ outcomes = <<>>
    /\ nedits = 0

RunIdle ==
    /\ pc = "none"
    /\ authors = <<>>
    /\ idx = 0
    /\ docs = <<>>
    /\ inflight = {}
    /\ completed = <<>>
    /\ failed = {}
    /\ maxinflight = 0

----------------------------------------------------------------------------
(* SpecStats: add_text, add_word and merge called on Stats values *)

\* stats.add_text(Text::new("URL", c))
AddText(c) ==
    /\ Len(stats.texts) < MaxTexts
    /\ stats' = add_text(stats, Text_new(SampleUrl, c))
    /\ folded' = Append(folded, c)
    /\ UNCHANGED <<other, nwords, direct>>
    /\ UNCHANGED <<clientVars, dbVars, runVars, queryVars, resolveVars, uiVars>>

\* other.add_text(Text::new("URL", c))
AddTextOther(c) ==
    /\ Len(other.texts) < MaxOtherTexts
    /\ other' = add_text(other, Text_new(SampleUrl, c))
    /\ UNCHANGED <<stats, folded, nwords, direct>>
    /\ UNCHANGED <<clientVars, dbVars, runVars, queryVars, resolveVars, uiVars>>

\* stats.add_word(text_id, word)
AddWord(text_id, word) ==
    /\ nwords < MaxAddWord
    /\ stats' = add_word(stats, text_id, word)
    /\ nwords' = nwords + 1
    /\ direct' = Logged(direct, <<"stats", word>>)
    /\ UNCHANGED <<other, folded>>
    /\ UNCHANGED <<clientVars, dbVars, runVars, queryVars, resolveVars, uiVars>>

\* other.add_word(text_id, word)
AddWordOther(text_id, word) ==
    /\ nwords < MaxAddWord
    /\ other' = add_word(other, text_id, word)
    /\ nwords' = nwords + 1
    /\ direct' = Logged(direct, <<"other", word>>)
    /\ UNCHANGED <<stats, folded>>
    /\ UNCHANGED <<clientVars, dbVars, runVars, queryVars, resolveVars, uiVars>>

\* stats.merge(&other)
Merge ==
    /\ Len(stats.texts) <= MaxTexts
    /\ other.texts # <<>>
    /\ stats' = merge(stats, other)
    /\ folded' = folded \o [k \in 1..Len(other.texts) |-> other.texts[k].text]
    /\ UNCHANGED <<other, nwords, direct>>
    /\ UNCHANGED <<clientVars, dbVars, runVars, queryVars, resolveVars, uiVars>>

InitStats == ClientIdle /\ StatsEmpty /\ DbIdle /\ RunIdle /\ QueryIdle /\ ResolveIdle /\ UiIdle

NextStats ==
    \/ \E c \in Contents : AddText(c)
    \/ \E c \in OtherContents : AddTextOther(c)
    \/ \E t \in SampleTextIds, w \in SampleWords : AddWord(t, w)
    \/ \E t \in SampleTextIds, w \in SampleWords : AddWordOther(t, w)
    \/ Merge

SpecStats == InitStats /\ [][NextStats]_vars

\* The sum of global_count() over the word table of s
SumGlobalCounts(s) ==
    Sum([w \in DOMAIN s.words |-> global_count(s.words[w])], DOMAIN s.words)

\* C8: after any sequence of add_text and merge calls the k-th folded
\* document is stored at position k with text_id k: the ids are 1..n, dense,
\* and the id at a position is the same in every later state.
C8_TextIdsDense ==
    /\ Len(stats.texts) = Len(folded)
    /\ \A k \in 1..Len(stats.texts) :
          /\ stats.texts[k].id = Some(k)
          /\ stats.texts[k].text = folded[k]
    /\ \A k \in 1..Len(other.texts) : other.texts[k].id = Some(k)

\* C8 witness: add_text and merge have both acted (only merge takes a Stats
\* past MaxTexts documents)
C8_Witness ==
    /\ Len(stats.texts) > MaxTexts
    /\ stats.texts[Len(stats.texts)].id = Some(Len(stats.texts))

\* C10: the sum of global_count() over the word table equals word_count
C10_SumEqualsWordCount ==
    /\ SumGlobalCounts(stats) = stats.word_count
    /\ SumGlobalCounts(other) = other.word_count

\* C10 witness: a table built by add_text, merge and add_word together,
\* with a word counted in more than one document
C10_Witness ==
    /\ Len(stats.texts) > MaxTexts
    /\ nwords > 0
    /\ stats.word_count >= 4
    /\ \E w \in DOMAIN stats.words : Cardinality(DOMAIN stats.words[w].count) >= 2

----------------------------------------------------------------------------
(* core/db.rs: the store and AsyncMultiTransaction *)

\* `:put Rel { key => val }`: insert the row or replace the row of that key
Put(rel, key, val) == [k \in DOMAIN rel \cup {key} |-> IF k = key THEN val ELSE rel[k]]

\* The rows of relation `under` overwritten and extended by those of `over`
Overlay(under, over) ==
    [k \in DOMAIN under \cup DOMAIN over |->
        IF k \in DOMAIN over THEN over[k] ELSE under[k]]

\* DBConnection::multi_tx(true): a transaction with no writes yet
multi_tx == Some(EmptyStore)

\* Faulty variant of run_script: the row is also written to the store at once
run_script_autocommit(db, rel, key, val) ==
    [store |-> [db.store EXCEPT ![rel] = Put(@, key, val)],
     tx |-> Some([Unwrap(db.tx) EXCEPT ![rel] = Put(@, key, val)])]

\* AsyncMultiTransaction::run_script of a `:put` that succeeds, on
\* db = [store, tx]: the row is written inside the transaction only
run_script(db, rel, key, val) ==
    [store |-> db.store,
     tx |-> Some([Unwrap(db.tx) EXCEPT ![rel] = Put(@, key, val)])]

\* AsyncMultiTransaction::commit that succeeds: every write becomes visible
commit(db) ==
    [store |-> [Author |-> Overlay(db.store.Author, Unwrap(db.tx).Author),
                Text   |-> Overlay(db.store.Text, Unwrap(db.tx).Text),
                Word   |-> Overlay(db.store.Word, Unwrap(db.tx).Word)],
     tx |-> None]

Db == [store |-> store, tx |-> tx]

\* Rows an earlier run left in the store; some keys are written again by a
\* new run, one is not
OldUrl == <<"old">>
OldStore ==
    [Author |-> (<<0, <<"A", 1>>>> :> <<OldUrl>>),
     Text   |-> (<<1, 0>> :> <<OldUrl, <<"n">>>>),
     Word   |-> (<<<<"a">>, 1>> :> 7) @@ (<<<<"n">>, 9>> :> 1)]

----------------------------------------------------------------------------
(* core/stats.rs: Stats::store_in_db, one step per script *)

\* The (word, text_id) pairs of the loops at stats.rs:94-95
WordWrites(s) == UNION {{<<w, t>> : t \in s.words[w].text_ids} : w \in DOMAIN s.words}

\* stats.rs:69-70: the transaction is opened
StoreBegin ==
    /\ pc = "store_begin"
    /\ tx' = multi_tx
    /\ store0' = store
    /\ wtodo' = WordWrites(stats)
    /\ storing' = TRUE
    /\ wlog' = EmptyMap
    /\ idx' = 1
    /\ pc' = "store_texts"
    /\ UNCHANGED <<store, authors, docs, inflight, completed, failed, maxinflight>>
    /\ UNCHANGED <<clientVars, statsVars, queryVars, resolveVars, uiVars>>

\* stats.rs:72-92: the Text write of texts[idx], which succeeds or fails
StorePutText ==
    /\ pc = "store_texts"
    /\ idx <= Len(stats.texts)
    /\ LET text == stats.texts[idx] IN
        /\ IsSome(text.id) /\ IsSome(text.author_id)
        /\ \/ LET db == run_script(Db, "Text",
                            <<Unwrap(text.id), Unwrap(text.author_id)>>,
                            <<text.url, text.text>>) IN
              /\ store' = db.store
              /\ tx' = db.tx
              /\ wlog' = Logged(wlog, <<"Text",
                            <<Unwrap(text.id), Unwrap(text.author_id)>>,
                            <<text.url, text.text>>>>)
              /\ idx' = idx + 1
              /\ pc' = pc
           \/ /\ tx' = None
              /\ pc' = "err"
              /\ UNCHANGED <<store, idx, wlog>>
    /\ UNCHANGED <<store0, wtodo, storing, authors, docs, inflight, completed,
                   failed, maxinflight>>
    /\ UNCHANGED <<clientVars, statsVars, queryVars, resolveVars, uiVars>>

\* stats.rs:73-74: expect() on a Text without id or author panics; the
\* transaction is dropped by the unwinding
StorePanic ==
    /\ pc = "store_texts"
    /\ idx <= Len(stats.texts)
    /\ ~(IsSome(stats.texts[idx].id) /\ IsSome(stats.texts[idx].author_id))
    /\ tx' = None
    /\ pc' = "panic"
    /\ UNCHANGED <<store, store0, wtodo, storing, wlog, idx, authors, docs, inflight,
                   completed, failed, maxinflight>>
    /\ UNCHANGED <<clientVars, statsVars, queryVars, resolveVars, uiVars>>

\* stats.rs:92-94: the loop over the texts is left
StoreTextsDone ==
    /\ pc = "store_texts"
    /\ idx > Len(stats.texts)
    /\ pc' = "store_words"
    /\ UNCHANGED <<store, tx, store0, wtodo, storing, wlog, idx, authors, docs,
                   inflight, completed, failed, maxinflight>>
    /\ UNCHANGED <<clientVars, statsVars, queryVars, resolveVars, uiVars>>

\* stats.rs:94-111: one Word write, in the HashMap's and HashSet's iteration
\* order, which is unspecified: any pair not yet written may be next
StorePutWord(pair) ==
    /\ pc = "store_words"
    /\ pair \in wtodo
    /\ \/ LET db == run_script(Db, "Word", pair, count(stats.words[pair[1]], pair[2])) IN
          /\ store' = db.store
          /\ tx' = db.tx
          /\ wtodo' = wtodo \ {pair}
          /\ wlog' = Logged(wlog, <<"Word", pair, count(stats.words[pair[1]], pair[2])>>)
          /\ pc' = pc
       \/ /\ tx' = None
          /\ pc' = "err"
          /\ UNCHANGED <<store, wtodo, wlog>>
    /\ UNCHANGED <<store0, storing, idx, authors, docs, inflight, completed,
                   failed, maxinflight>>
    /\ UNCHANGED <<clientVars, statsVars, queryVars, resolveVars, uiVars>>

\* stats.rs:112-113: commit, which succeeds or fails
StoreCommit ==
    /\ pc = "store_words"
    /\ wtodo = {}
    /\ \/ /\ store' = commit(Db).store
          /\ tx' = commit(Db).tx
          /\ pc' = "ok"
       \/ /\ tx' = None
          /\ pc' = "err"
          /\ UNCHANGED store
    /\ UNCHANGED <<store0, wtodo, storing, wlog, idx, authors, docs, inflight,
                   completed, failed, maxinflight>>
    /\ UNCHANGED <<clientVars, statsVars, queryVars, resolveVars, uiVars>>

StoreInDb ==
    \/ StoreBegin
    \/ StorePutText
    \/ StoreTextsDone
    \/ \E pair \in wtodo : StorePutWord(pair)
    \/ StoreCommit

----------------------------------------------------------------------------
(* core/queries.rs: Query::parse and Query::eval *)

\* Result<T, E>
Ok(v) == <<"Ok", v>>
Err(e) == <<"Err", e>>
IsOk(r) == r[1] = "Ok"

\* Command words of QueryCommand::from that the queries below name
CmdTop == <<"t", "o", "p">>
CmdCountTexts == <<"c", "o", "u", "n", "t", "-", "t", "e", "x", "t", "s">>
CmdCountAuthors == <<"c", "o", "u", "n", "t", "-", "a", "u", "t", "h", "o", "r", "s">>
CmdCountWords == <<"c", "o", "u", "n", "t", "-", "w", "o", "r", "d", "s">>
CmdWord == <<"w", "o", "r", "d">>
CmdTexts == <<"t", "e", "x", "t", "s">>

Commands ==
    (<<"h", "e", "l", "p">> :> "Help") @@
    (CmdTop :> "Top") @@
    (<<"t", "o", "p", "-", "e", "n", "d", "s">> :> "TopEnds") @@
    (CmdTexts :> "Texts") @@
    (<<"e", "n", "d", "s">> :> "Ends") @@
    (<<"e", "n", "d", "s", "-", "t", "e", "x", "t", "s">> :> "EndsTexts") @@
    (<<"c", "o", "n", "t", "a", "i", "n", "s">> :> "Contains") @@
    (<<"c", "o", "n", "t", "a", "i", "n", "s", "-", "t", "e", "x", "t", "s">> :> "ContainsTexts") @@
    (CmdCountTexts :> "CountTexts") @@
    (CmdCountAuthors :> "CountAuthors") @@
    (CmdCountWords :> "CountWords") @@
    (CmdWord :> "Word") @@
    (<<"t", "e", "x", "t">> :> "Text") @@
    (<<"a", "u", "t", "h", "o", "r">> :> "Author") @@
    (<<"q", "u", "i", "t">> :> "Quit") @@
    (<<"e", "x", "i", "t">> :> "Exit") @@
    (<<"c", "l", "e", "a", "r">> :> "Clear")

\* Faulty variant of QueryCommand::from: a word that is no command name
\* falls back to help
QueryCommand_from_help(cmd) ==
    IF cmd \in DOMAIN Commands THEN <<Commands[cmd]>> ELSE <<"Help">>

\* QueryCommand::from
QueryCommand_from(cmd) ==
    IF cmd \in DOMAIN Commands THEN <<Commands[cmd]>> ELSE <<"Unknown", cmd>>

\* Query::new
Query_new(cmd, args) == [cmd |-> QueryCommand_from(cmd), args |-> args]

Quote == "\""

\* The locals of Query::parse at queries.rs:131-134
ParseStart == [cmd |-> <<>>, args |-> <<>>, current_arg |-> <<>>, in_quotes |-> FALSE]

RECURSIVE parse_loop(_, _)
\* The loop at queries.rs:136-160 over the characters cs: Err(e) when the
\* loop returns early, Ok(locals) when it runs to the end
parse_loop(cs, st) ==
    IF cs = <<>> THEN Ok(st)
    ELSE LET c == Head(cs) IN
         IF c \in {" ", "\t"} /\ ~st.in_quotes
         THEN IF st.current_arg # <<>>
              THEN IF st.cmd = <<>>
                   THEN parse_loop(Tail(cs), [st EXCEPT !.cmd = st.current_arg,
                                                        !.current_arg = <<>>])
                   ELSE parse_loop(Tail(cs), [st EXCEPT !.args = Append(@, st.current_arg),
                                                        !.current_arg = <<>>])
              ELSE parse_loop(Tail(cs), st)
         ELSE IF c = Quote
         THEN IF st.in_quotes /\ st.current_arg # <<>>
              THEN IF st.cmd = <<>>
                   THEN Err(<<"MissingCommand">>)
                   ELSE parse_loop(Tail(cs), [st EXCEPT !.in_quotes = FALSE,
                                                        !.args = Append(@, st.current_arg),
                                                        !.current_arg = <<>>])
              ELSE parse_loop(Tail(cs), [st EXCEPT !.in_quotes = ~st.in_quotes])
         ELSE parse_loop(Tail(cs), [st EXCEPT !.current_arg = Append(@, c)])

\* Faulty variant of parse_end: a quote left open is not reported
parse_end_unchecked(st) ==
    LET st2 == IF st.current_arg # <<>>
               THEN IF st.cmd = <<>> THEN [st EXCEPT !.cmd = st.current_arg]
                    ELSE [st EXCEPT !.args = Append(@, st.current_arg)]
               ELSE st
    IN IF st2.cmd = <<>> THEN Err(<<"MissingCommand">>)
       ELSE Ok(Query_new(st2.cmd, st2.args))

\* queries.rs:162-178: what parse returns once the loop has run to the end
parse_end(st) ==
    IF st.in_quotes THEN Err(<<"UnmatchedQuotes">>)
    ELSE LET st2 == IF st.current_arg # <<>>
                    THEN IF st.cmd = <<>> THEN [st EXCEPT !.cmd = st.current_arg]
                         ELSE [st EXCEPT !.args = Append(@, st.current_arg)]
                    ELSE st
         IN IF st2.cmd = <<>> THEN Err(<<"MissingCommand">>)
            ELSE Ok(Query_new(st2.cmd, st2.args))

\* Query::parse
parse(q) ==
    LET trimmed == trim(q) IN
    IF trimmed = <<>> THEN Err(<<"EmptyQuery">>)
    ELSE LET r == parse_loop(trimmed, ParseStart) IN
         IF IsOk(r) THEN parse_end(r[2]) ELSE r

\* str::parse::<usize> on a string of the digits of the model
DigitValue(c) == IF c = "1" THEN 1 ELSE 2

RECURSIVE DecimalValue(_)
DecimalValue(s) ==
    IF s = <<>> THEN 0 ELSE 10 * DecimalValue(SubSeq(s, 1, Len(s) - 1)) + DigitValue(s[Len(s)])

parse_usize(s) ==
    IF s # <<>> /\ \A i \in 1..Len(s) : s[i] \in Digits THEN Some(DecimalValue(s)) ELSE None

\* Args::optional_at::<usize>(idx), idx counted from 0
optional_at(args, i) == IF i + 1 <= Len(args) THEN parse_usize(args[i + 1]) ELSE None

\* starts_with(word, prefix) of the query language
starts_with(w, prefix) == Len(prefix) <= Len(w) /\ SubSeq(w, 1, Len(prefix)) = prefix

\* ?[word, count, text_id] := *Word{word,count,text_id}, word = $word
word_info(db, word) ==
    {<<k[1], db.Word[k], k[2]>> : k \in {x \in DOMAIN db.Word : x[1] = to_lowercase(word)}}

\* ?[word, sum(count), count(text_id)] := *Word{word,count,text_id},
\*   starts_with(word, $prefix): one row for every word with the prefix
top_words_starting_with(db, prefix) ==
    LET ks == {x \in DOMAIN db.Word : starts_with(x[1], to_lowercase(prefix))} IN
    {<<w, Sum([k \in {x \in ks : x[1] = w} |-> db.Word[k]], {x \in ks : x[1] = w}),
       Cardinality({x \in ks : x[1] = w})>> : w \in {x[1] : x \in ks}}

\* ?[count(word), count_unique(word)] := *Word{word}: count() counts the
\* values the rule body generates, one for every row of Word (bag
\* semantics); count_unique() counts the different ones
count_words(db) ==
    {<<Cardinality(DOMAIN db.Word), Cardinality({k[1] : k \in DOMAIN db.Word})>>}

\* ?[count(text_id)] := *Text{text_id} and ?[count(name)] := *Author{name}
count_texts(db) == {<<Cardinality(DOMAIN db.Text)>>}
count_authors(db) == {<<Cardinality(DOMAIN db.Author)>>}

\* query_with_optional_limit: `:limit n` keeps n rows of the output; which
\* ones depends on the output order of the store, left open here
query_with_optional_limit(rs, limit) ==
    IF IsSome(limit) /\ Unwrap(limit) < Cardinality(rs)
    THEN {r \in SUBSET rs : Cardinality(r) = Unwrap(limit)}
    ELSE {rs}

\* ends_with(word, suffix) and str_includes(s, substring) of the query language
ends_with(w, suffix) ==
    Len(suffix) <= Len(w) /\ SubSeq(w, Len(w) - Len(suffix) + 1, Len(w)) = suffix
str_includes(w, sub) ==
    \E i \in 1..(Len(w) + 1) : i + Len(sub) - 1 <= Len(w) /\ SubSeq(w, i, i + Len(sub) - 1) = sub

\* ?[word, sum(count), count(text_id)] := *Word{word,count,text_id},
\*   ends_with(word, $suffix): the script of top_words_ending_with and of
\*   words_ending_with
top_words_ending_with(db, suffix) ==
    LET ks == {x \in DOMAIN db.Word : ends_with(x[1], to_lowercase(suffix))} IN
    {<<w, Sum([k \in {x \in ks : x[1] = w} |-> db.Word[k]], {x \in ks : x[1] = w}),
       Cardinality({x \in ks : x[1] = w})>> : w \in {x[1] : x \in ks}}
words_ending_with(db, suffix) == top_words_ending_with(db, suffix)

\* ?[word, sum(count), count(text_id)] := *Word{word,count,text_id},
\*   str_includes(word, $substring)
words_containing(db, substring) ==
    LET ks == {x \in DOMAIN db.Word : str_includes(x[1], to_lowercase(substring))} IN
    {<<w, Sum([k \in {x \in ks : x[1] = w} |-> db.Word[k]], {x \in ks : x[1] = w}),
       Cardinality({x \in ks : x[1] = w})>> : w \in {x[1] : x \in ks}}

\* ?[text_id, url] := *Text{text_id,url}, *Word{word,count,text_id},
\*   starts_with(word, $prefix)
texts_with_word_starting_with(db, prefix) ==
    {<<t[1], db.Text[t][1]>> :
        t \in {x \in DOMAIN db.Text :
                \E k \in DOMAIN db.Word :
                    k[2] = x[1] /\ starts_with(k[1], to_lowercase(prefix))}}

\* ?[text_id, url, text] := *Text{text_id,url,text}, *Word{word,count,text_id},
\*   ends_with(word, $suffix)
texts_with_word_ending_with(db, suffix) ==
    {<<t[1], db.Text[t][1], db.Text[t][2]>> :
        t \in {x \in DOMAIN db.Text :
                \E k \in DOMAIN db.Word :
                    k[2] = x[1] /\ ends_with(k[1], to_lowercase(suffix))}}

\* ?[text_id, url] := *Text{text_id,url,text}, str_includes(text, $substring)
texts_containing(db, substring) ==
    {<<t[1], db.Text[t][1]>> :
        t \in {x \in DOMAIN db.Text : str_includes(db.Text[x][2], to_lowercase(substring))}}

\* ?[text_id, author_name, url, text_length] := *Author{author_id, name: author_name},
\*   *Text{text_id, url, text, author_id}, text_length = length(text)
texts_info(db) ==
    {<<j[1][1], j[2][2], db.Text[j[1]][1], Len(db.Text[j[1]][2])>> :
        j \in {x \in (DOMAIN db.Text) \X (DOMAIN db.Author) : x[1][2] = x[2][1]}}

\* ?[text_id, author_name, url, text_length, count(word)] := text_id = $text_id,
\*   *Author{..}, *Text{..}, *Word{word, text_id}, text_length = length(text):
\*   count(word) counts the joined rows of a group
text_info(db, text_id) ==
    LET joined == {x \in (DOMAIN db.Text) \X (DOMAIN db.Author) \X (DOMAIN db.Word) :
                       /\ x[1][1] = text_id
                       /\ x[1][2] = x[2][1]
                       /\ x[3][2] = text_id}
        group(x) == <<x[1][1], x[2][2], db.Text[x[1]][1], Len(db.Text[x[1]][2])>>
    IN {<<group(j)[1], group(j)[2], group(j)[3], group(j)[4],
          Cardinality({x \in joined : group(x) = group(j)})>> : j \in joined}

\* ?[name, author_id, unique(text_id)] := *Author{name, author_id},
\*   *Text{text_id, author_id}, name = $name
author_info(db, name) ==
    LET joined == {x \in (DOMAIN db.Author) \X (DOMAIN db.Text) :
                       x[1][2] = name /\ x[2][2] = x[1][1]}
    IN {<<j[1][2], j[1][1], {x[2][1] : x \in {y \in joined : y[1] = j[1]}}>> : j \in joined}

\* print_help: the first column of the rows
print_help ==
    Ok({<<"/top <prefix> ?<limit>">>, <<"/top-ends <suffix> ?<limit>">>,
        <<"/texts <prefix> ?<limit>">>, <<"/texts ?<limit>">>,
        <<"/ends <suffix> ?<limit>">>, <<"/ends-texts <suffix> ?<limit>">>,
        <<"/contains <substring> ?<limit>">>, <<"/contains-texts <substring> ?<limit>">>,
        <<"/count-texts">>, <<"/count-authors">>, <<"/count-words">>,
        <<"/word <word>">>, <<"/text <text_id>">>, <<"/author <name>">>,
        <<"/quit">>, <<"/exit">>, <<"/clear">>})

\* The rows of the script that the query function `name` runs with argument arg
script_rows(db, name, arg) ==
    CASE name = "top_words_starting_with" -> top_words_starting_with(db, arg)
      [] name = "top_words_ending_with" -> top_words_ending_with(db, arg)
      [] name = "texts_with_word_starting_with" -> texts_with_word_starting_with(db, arg)
      [] name = "words_ending_with" -> words_ending_with(db, arg)
      [] name = "texts_with_word_ending_with" -> texts_with_word_ending_with(db, arg)
      [] name = "words_containing" -> words_containing(db, arg)
      [] name = "texts_containing" -> texts_containing(db, arg)
      [] name = "count_texts" -> count_texts(db)
      [] name = "count_authors" -> count_authors(db)
      [] name = "count_words" -> count_words(db)
      [] name = "word_info" -> word_info(db, arg)
      [] name = "text_info" -> text_info(db, arg)
      [] name = "texts_info" -> texts_info(db)
      [] name = "author_info" -> author_info(db, arg)

\* What an arm of the match in Query::eval does.  The arm returns a value
\* without touching the store (Return), calls a query function with an
\* argument and a limit (Query), panics in an expect (Panic) or ends the
\* process (Exit)
Return(res) == <<"Return", res>>
MissingArgs(q) == Return(Err(<<"MissingArgs", q.cmd, 1, Len(q.args)>>))
OneArg(q, name) ==
    IF q.args = <<>> THEN MissingArgs(q)
    ELSE <<"Query", name, q.args[1], optional_at(q.args, 1)>>

\* The match of Query::eval, queries.rs:184-293
eval_arm(q) ==
    CASE q.cmd = <<"Help">> -> Return(print_help)
      [] q.cmd = <<"Top">> -> OneArg(q, "top_words_starting_with")
      [] q.cmd = <<"TopEnds">> -> OneArg(q, "top_words_ending_with")
      [] q.cmd = <<"Texts">> ->
            IF Len(q.args) < 2
            THEN <<"Query", "texts_info", <<>>, optional_at(q.args, 0)>>
            ELSE <<"Query", "texts_with_word_starting_with", q.args[1], optional_at(q.args, 1)>>
      [] q.cmd = <<"Ends">> -> OneArg(q, "words_ending_with")
      [] q.cmd = <<"EndsTexts">> -> OneArg(q, "texts_with_word_ending_with")
      [] q.cmd = <<"Contains">> -> OneArg(q, "words_containing")
      [] q.cmd = <<"ContainsTexts">> -> OneArg(q, "texts_containing")
      [] q.cmd = <<"CountTexts">> -> <<"Query", "count_texts", <<>>, None>>
      [] q.cmd = <<"CountAuthors">> -> <<"Query", "count_authors", <<>>, None>>
      [] q.cmd = <<"CountWords">> -> <<"Query", "count_words", <<>>, None>>
      [] q.cmd = <<"Word">> -> OneArg(q, "word_info")
      [] q.cmd = <<"Text">> ->
            IF q.args = <<>> THEN MissingArgs(q)
            ELSE IF IsSome(parse_usize(q.args[1]))
            THEN <<"Query", "text_info", Unwrap(parse_usize(q.args[1])), optional_at(q.args, 1)>>
            ELSE <<"Panic", "Expected a valid usize for text_id">>
      [] q.cmd = <<"Author">> -> OneArg(q, "author_info")
      [] q.cmd \in {<<"Quit">>, <<"Exit">>} -> <<"Exit", 0>>
      [] q.cmd = <<"Clear">> -> Return(Ok({}))
      [] q.cmd[1] = "Unknown" -> Return(Err(<<"UnknownQuery", q.cmd[2]>>))

\* The scripts Query::eval runs on the store through run_query
scripts_run(q) == IF eval_arm(q)[1] = "Query" THEN <<eval_arm(q)[2]>> ELSE <<>>

\* Query::eval on the committed store db: the set of outcomes the call may
\* have, Ok(rows) or Err(e) when it returns
eval(q, db) ==
    LET arm == eval_arm(q) IN
    CASE arm[1] = "Return" -> {arm[2]}
      [] arm[1] = "Query" ->
            {Ok(r) : r \in query_with_optional_limit(script_rows(db, arm[2], arm[3]), arm[4])}
      [] OTHER -> {arm}

\* The queries evaluated after a store_in_db
EvalQueries ==
    {Query_new(CmdCountWords, <<>>), Query_new(CmdCountTexts, <<>>),
     Query_new(CmdCountAuthors, <<>>), Query_new(CmdWord, <<>>),
     Query_new(<<"x">>, <<>>)}
    \cup {Query_new(c, <<w>>) : c \in {CmdWord, CmdTop}, w \in {<<"a">>, <<"b">>, <<"A">>}}
    \cup {Query_new(c, <<<<"a">>, <<"1">>>>) : c \in {CmdWord, CmdTop}}
    \cup {Query_new(CmdTexts, as) :
            as \in {<<>>, <<<<"a">>>>, <<<<"b">>>>, <<<<"1">>>>,
                    <<<<"a">>, <<"1">>>>, <<<<"b">>, <<"x">>>>}}

\* repl.rs:135: a query is evaluated on the store after store_in_db
\* returned Ok
Eval(q) ==
    /\ pc = "ok"
    /\ \E res \in eval(q, store) : qrows' = Some(<<q, res, scripts_run(q)>>)
    /\ pc' = "queried"
    /\ UNCHANGED <<query, presult>>
    /\ UNCHANGED <<resolveVars, uiVars>>
    /\ UNCHANGED <<authors, idx, docs, inflight, completed, failed, maxinflight>>
    /\ UNCHANGED <<clientVars, statsVars, dbVars>>

----------------------------------------------------------------------------
(* SpecPersist: store_in_db called on a Stats built by add_text *)

SeqsUpTo(S, n) == UNION {[1..k -> S] : k \in 0..n}

\* Texts as Text::new makes them (no author) and as the ingestion run makes
\* them (author_id set)
InputTexts ==
    {[Text_new(SampleUrl, c) EXCEPT !.author_id = a] : c \in Contents, a \in {None, Some(0)}}

PersistInputs == {AddTexts(Stats_new, ts) : ts \in SeqsUpTo(InputTexts, MaxTexts)}

InitPersist ==
    /\ ClientIdle
    /\ stats \in PersistInputs
    /\ other = Stats_new
    /\ folded = [k \in 1..Len(stats.texts) |-> stats.texts[k].text]
    /\ nwords = 0
    /\ direct = EmptyMap
    /\ store \in {EmptyStore, OldStore}
    /\ tx = None
    /\ store0 = store
    /\ wtodo = {}
    /\ storing = FALSE
    /\ wlog = EmptyMap
    /\ pc = "store_begin"
    /\ authors = <<>>
    /\ idx = 0
    /\ docs = <<>>
    /\ inflight = {}
    /\ completed = <<>>
    /\ failed = {}
    /\ maxinflight = 0
    /\ QueryIdle /\ ResolveIdle /\ UiIdle

NextPersist == StoreInDb \/ StorePanic \/ \E q \in EvalQueries : Eval(q)

SpecPersist == InitPersist /\ [][NextPersist]_vars

\* The Text and Word rows store_in_db writes for s
TextRows(s) ==
    [k \in {<<Unwrap(s.texts[i].id), Unwrap(s.texts[i].author_id)>> : i \in 1..Len(s.texts)} |->
        LET i == CHOOSE j \in 1..Len(s.texts) :
                    k = <<Unwrap(s.texts[j].id), Unwrap(s.texts[j].author_id)>>
        IN <<s.texts[i].url, s.texts[i].text>>]

WordRows(s) == [p \in WordWrites(s) |-> count(s.words[p[1]], p[2])]

\* C3: when store_in_db fails at a write (the call ends in an error with the
\* transaction dropped, never committed), the store is the store as it was
\* when the call began; and no write is visible before the commit.
C3_FailedStoreLeavesNoRows ==
    /\ (storing /\ pc \in {"store_texts", "store_words", "err", "panic"}) => store = store0
    /\ (storing /\ pc = "err") => tx = None

\* C3 witness: the call failed at a Word write after Text writes and other
\* Word writes went through, over a store that held rows before
C3_Witness ==
    /\ storing /\ pc = "err"
    /\ idx > Len(stats.texts) /\ Len(stats.texts) >= 2
    /\ wtodo # {} /\ wtodo # WordWrites(stats)
    /\ store = OldStore

----------------------------------------------------------------------------
(* cli/main.rs: fetch_and_store_stats.  The futures pushed at main.rs:110   *)
(* and 161 are not polled until they are awaited, one after the other, at   *)
(* main.rs:133 and 166: each request starts when its await is reached.      *)

\* What the catalogue page and an author's page list
AuthorInfo(i) == [name |-> <<"A", i>>, url |-> <<"author", i>>, texts |-> <<>>]
TextInfo(i, j) == [name |-> <<"W", i, j>>, url |-> <<"work", i, j>>]

\* enumerate() at main.rs:109 and 158 counts from 0
author_id(i) == i - 1

Max(a, b) == IF a >= b THEN a ELSE b

\* semaphore.acquire() returned and the request is sent
RequestStart(req) ==
    /\ permits > 0
    /\ permits' = permits - 1
    /\ inflight' = inflight \cup {req}
    /\ maxinflight' = Max(maxinflight, Cardinality(inflight) + 1)

\* the operation returned (with a body or an error) and dropped its permit
RequestEnd(req) ==
    /\ permits' = permits + 1
    /\ inflight' = inflight \ {req}
    /\ UNCHANGED maxinflight

\* main.rs:104, client.rs:33-34: get_authors is awaited
GetAuthorsStart ==
    /\ pc = "start"
    /\ RequestStart(<<"authors">>)
    /\ pc' = "authors_wait"
    /\ UNCHANGED <<tpc, top, tholds, tres, authors, idx, docs, completed, failed>>
    /\ UNCHANGED <<statsVars, dbVars, queryVars, resolveVars, uiVars>>

\* client.rs:34-53, main.rs:104-107: the page lists n authors and the
\* Author transaction is opened, or the request fails and the run ends
GetAuthorsDone(n) ==
    /\ pc = "authors_wait"
    /\ RequestEnd(<<"authors">>)
    /\ \/ /\ authors' = [i \in 1..n |-> AuthorInfo(i)]
          /\ tx' = multi_tx
          /\ idx' = 1
          /\ pc' = "put_authors"
       \/ /\ n = 0
          /\ pc' = "err"
          /\ UNCHANGED <<authors, tx, idx>>
    /\ UNCHANGED <<tpc, top, tholds, tres, docs, completed, failed>>
    /\ UNCHANGED <<statsVars, store, store0, wtodo, storing, wlog, queryVars, resolveVars, uiVars>>

\* main.rs:109-126: the Author write of authors[idx], which succeeds or fails
PutAuthor ==
    /\ pc = "put_authors"
    /\ idx <= Len(authors)
    /\ \/ LET db == run_script(Db, "Author",
                        <<author_id(idx), authors[idx].name>>, <<authors[idx].url>>) IN
          /\ store' = db.store
          /\ tx' = db.tx
          /\ idx' = idx + 1
          /\ pc' = pc
       \/ /\ tx' = None
          /\ pc' = "err"
          /\ UNCHANGED <<store, idx>>
    /\ UNCHANGED <<authors, docs, inflight, completed, failed, maxinflight>>
    /\ UNCHANGED <<clientVars, statsVars, store0, wtodo, storing, wlog, queryVars, resolveVars, uiVars>>

\* main.rs:128: the Author transaction is committed, or the commit fails
CommitAuthors ==
    /\ pc = "put_authors"
    /\ idx > Len(authors)
    /\ \/ /\ store' = commit(Db).store
          /\ tx' = commit(Db).tx
          /\ idx' = 1
          /\ pc' = "get_texts"
       \/ /\ tx' = None
          /\ pc' = "err"
          /\ UNCHANGED <<store, idx>>
    /\ UNCHANGED <<authors, docs, inflight, completed, failed, maxinflight>>
    /\ UNCHANGED <<clientVars, statsVars, store0, wtodo, storing, wlog, queryVars, resolveVars, uiVars>>

RECURSIVE DocListLastFirst(_, _)
\* Faulty variant of DocList: the documents of later authors come first
DocListLastFirst(as, i) ==
    IF i > Len(as) THEN <<>>
    ELSE DocListLastFirst(as, i + 1)
         \o [j \in 1..Len(as[i].texts) |->
                [author_id |-> author_id(i), url |-> as[i].texts[j].url]]

RECURSIVE DocList(_, _)
\* main.rs:156-163: the (author_id, url) pairs in author order, then work order
DocList(as, i) ==
    IF i > Len(as) THEN <<>>
    ELSE [j \in 1..Len(as[i].texts) |->
            [author_id |-> author_id(i), url |-> as[i].texts[j].url]]
         \o DocList(as, i + 1)

\* main.rs:133, client.rs:60-67: the get_texts future of authors[idx] is awaited
GetTextsStart ==
    /\ pc = "get_texts"
    /\ idx <= Len(authors)
    /\ RequestStart(<<"texts", idx>>)
    /\ pc' = "texts_wait"
    /\ UNCHANGED <<tpc, top, tholds, tres, authors, idx, docs, completed, failed>>
    /\ UNCHANGED <<statsVars, dbVars, queryVars, resolveVars, uiVars>>

\* client.rs:61-84, main.rs:133-134, 139-143: the page lists m works, or the
\* request fails and the run ends
GetTextsDone(m) ==
    /\ pc = "texts_wait"
    /\ RequestEnd(<<"texts", idx>>)
    /\ \/ /\ Len(DocList(authors, 1)) + m <= MaxDocs
          /\ authors' = [authors EXCEPT ![idx].texts = [j \in 1..m |-> TextInfo(idx, j)]]
          /\ idx' = idx + 1
          /\ pc' = "get_texts"
       \/ /\ m = 0
          /\ pc' = "err"
          /\ UNCHANGED <<authors, idx>>
    /\ UNCHANGED <<tpc, top, tholds, tres, docs, completed, failed>>
    /\ UNCHANGED <<statsVars, dbVars, queryVars, resolveVars, uiVars>>

\* main.rs:137-163: every author page was read; the document list is built
TextsCollected ==
    /\ pc = "get_texts"
    /\ idx > Len(authors)
    /\ docs' = DocList(authors, 1)
    /\ idx' = 1
    /\ pc' = "fetch"
    /\ UNCHANGED <<authors, inflight, completed, failed, maxinflight>>
    /\ UNCHANGED <<clientVars, statsVars, dbVars, queryVars, resolveVars, uiVars>>

\* main.rs:166, client.rs:26-27: the fetch_text future of docs[idx] is awaited
FetchStart ==
    /\ pc = "fetch"
    /\ idx <= Len(docs)
    /\ RequestStart(<<"doc", idx>>)
    /\ pc' = "fetch_wait"
    /\ UNCHANGED <<tpc, top, tholds, tres, authors, idx, docs, completed, failed>>
    /\ UNCHANGED <<statsVars, dbVars, queryVars, resolveVars, uiVars>>

\* client.rs:27-29, main.rs:166-168: the body c is read, the Text gets its
\* author and is folded into stats
FetchDone(c) ==
    /\ pc = "fetch_wait"
    /\ RequestEnd(<<"doc", idx>>)
    /\ stats' = add_text(stats,
          [Text_new(docs[idx].url, c) EXCEPT !.author_id = Some(docs[idx].author_id)])
    /\ folded' = Append(folded, c)
    /\ completed' = Append(completed, idx)
    /\ idx' = idx + 1
    /\ pc' = "fetch"
    /\ UNCHANGED <<tpc, top, tholds, tres, authors, docs, failed, other, nwords,
                   direct>>
    /\ UNCHANGED <<dbVars, queryVars, resolveVars, uiVars>>

\* client.rs:27, main.rs:166: the request fails; `?` returns the error from
\* fetch_and_store_stats
FetchFail ==
    /\ pc = "fetch_wait"
    /\ RequestEnd(<<"doc", idx>>)
    /\ failed' = failed \cup {idx}
    /\ pc' = "err"
    /\ UNCHANGED <<tpc, top, tholds, tres, authors, idx, docs, completed>>
    /\ UNCHANGED <<statsVars, dbVars, queryVars, resolveVars, uiVars>>

\* main.rs:171: every document is folded; store_in_db is called
FetchesDone ==
    /\ pc = "fetch"
    /\ idx > Len(docs)
    /\ pc' = "store_begin"
    /\ UNCHANGED <<authors, idx, docs, inflight, completed, failed, maxinflight>>
    /\ UNCHANGED <<clientVars, statsVars, dbVars, queryVars, resolveVars, uiVars>>

\* Bodies a document request may return
RunContents == {Doc1, Doc3}

Init ==
    /\ ClientIdle
    /\ StatsEmpty
    /\ store \in {EmptyStore, OldStore}
    /\ tx = None
    /\ store0 = store
    /\ wtodo = {}
    /\ storing = FALSE
    /\ wlog = EmptyMap
    /\ pc = "start"
    /\ authors = <<>>
    /\ idx = 0
    /\ docs = <<>>
    /\ inflight = {}
    /\ completed = <<>>
    /\ failed = {}
    /\ maxinflight = 0
    /\ QueryIdle /\ ResolveIdle /\ UiIdle

Next ==
    \/ GetAuthorsStart
    \/ \E n \in 0..MaxAuthors : GetAuthorsDone(n)
    \/ PutAuthor
    \/ CommitAuthors
    \/ GetTextsStart
    \/ \E m \in 0..MaxWorks : GetTextsDone(m)
    \/ TextsCollected
    \/ FetchStart
    \/ \E c \in RunContents : FetchDone(c)
    \/ FetchFail
    \/ FetchesDone
    \/ StoreInDb

Spec == Init /\ [][Next]_vars

\* The run has returned
RunEnded == pc \in {"ok", "err", "panic"}

Range(f) == {f[i] : i \in DOMAIN f}

\* C2: when the fetch of a document fails, the run is not aborted: once the
\* run has ended every other discovered document was fetched and folded,
\* and the run went on to store_in_db with the documents that succeeded.
C2_FetchFailureDoesNotAbort ==
    (RunEnded /\ failed # {}) =>
        /\ \A k \in 1..Len(docs) : k \notin failed => k \in Range(completed)
        /\ completed # <<>> => storing

\* The rows the run writes for its authors
AuthorRows ==
    [k \in {<<author_id(i), authors[i].name>> : i \in 1..Len(authors)} |->
        LET i == CHOOSE j \in 1..Len(authors) : k = <<author_id(j), authors[j].name>>
        IN <<authors[i].url>>]

\* The keys of `rows` the store holds with the value `rows` gives them
Visible(rel, rows) == {k \in DOMAIN rows : k \in DOMAIN store[rel] /\ store[rel][k] = rows[k]}

NoRunRowVisible ==
    /\ Visible("Author", AuthorRows) = {}
    /\ Visible("Text", TextRows(stats)) = {}
    /\ Visible("Word", WordRows(stats)) = {}

\* Every row of the run is visible: those of its authors, a Text row for
\* every document the run has discovered, and the Word rows
AllRunRowsVisible ==
    /\ Visible("Author", AuthorRows) = DOMAIN AuthorRows
    /\ Len(stats.texts) = Len(DocList(authors, 1))
    /\ Visible("Text", TextRows(stats)) = DOMAIN TextRows(stats)
    /\ Visible("Word", WordRows(stats)) = DOMAIN WordRows(stats)

\* C4: an ingestion run is all-or-nothing for readers of the store: in every
\* state either no row of the run is visible or all of them are, and a run
\* that ended in an error left none of its rows.
C4_RunAllOrNothing ==
    /\ NoRunRowVisible \/ AllRunRowsVisible
    /\ (pc \in {"err", "panic"} /\ authors # <<>>) => NoRunRowVisible

\* The text_id of document d of the list, 0 when it was not folded
TextIdOfDoc(d) ==
    IF \E k \in 1..Len(stats.texts) : stats.texts[k].url = docs[d].url
    THEN Unwrap(stats.texts[CHOOSE k \in 1..Len(stats.texts) :
                                stats.texts[k].url = docs[d].url].id)
    ELSE 0

C9_SameStartingId ==
    (Len(authors) >= 1 /\ Len(stats.texts) >= 1) =>
        /\ <<author_id(1), authors[1].name>> \in DOMAIN AuthorRows
        /\ author_id(1) = Unwrap(stats.texts[1].id)

----------------------------------------------------------------------------
(* core/client.rs: fetch_text, get_authors and get_texts called concurrently *)
(* on one HttpStatsClient.  A caller stands at                               *)
(*   "acquire"  semaphore.acquire().await                                    *)
(*   "send"     client.get(url).send().await, the permit acquired            *)
(*   "body"     response.text().await                                        *)
(*   "process"  the body is read: Text::new, or the HTML is parsed and the   *)
(*              result built                                                 *)
(*   "done"     the operation returned                                       *)

Ops == {"fetch_text", "get_authors", "get_texts"}

\* One of the three operations is called
Call(t, op) ==
    /\ tpc[t] \in {"idle", "done"}
    /\ top' = [top EXCEPT ![t] = op]
    /\ tpc' = [tpc EXCEPT ![t] = "acquire"]
    /\ tres' = [tres EXCEPT ![t] = "none"]
    /\ UNCHANGED <<permits, tholds>>
    /\ UNCHANGED <<statsVars, dbVars, runVars, queryVars, resolveVars, uiVars>>

\* Faulty variant of Acquire: a permit is handed out when none is free
AcquireNoLimit(t) ==
    /\ tpc[t] = "acquire"
    /\ permits' = permits - 1
    /\ tholds' = [tholds EXCEPT ![t] = TRUE]
    /\ tpc' = [tpc EXCEPT ![t] = "send"]
    /\ UNCHANGED <<top, tres>>
    /\ UNCHANGED <<statsVars, dbVars, runVars, queryVars, resolveVars, uiVars>>

\* client.rs:26, 33, 60: semaphore.acquire().await returns once a permit is free
Acquire(t) ==
    /\ tpc[t] = "acquire"
    /\ permits > 0
    /\ permits' = permits - 1
    /\ tholds' = [tholds EXCEPT ![t] = TRUE]
    /\ tpc' = [tpc EXCEPT ![t] = "send"]
    /\ UNCHANGED <<top, tres>>
    /\ UNCHANGED <<statsVars, dbVars, runVars, queryVars, resolveVars, uiVars>>

\* A SemaphorePermit of caller t, if it owns one, is dropped: by drop(permit)
\* (client.rs:68) or by leaving the scope of `_permit` (client.rs:30, 53)
DropPermit(t) ==
    /\ permits' = permits + (IF tholds[t] THEN 1 ELSE 0)
    /\ tholds' = [tholds EXCEPT ![t] = FALSE]

\* Faulty variant of ReturnErr: the error path keeps the permit
ReturnErrLeak(t) ==
    /\ UNCHANGED <<permits, tholds>>
    /\ tpc' = [tpc EXCEPT ![t] = "done"]
    /\ tres' = [tres EXCEPT ![t] = "err"]

\* `?` on a failed send() or text(): the operation returns Err and its
\* locals, the permit among them, are dropped
ReturnErr(t) ==
    /\ DropPermit(t)
    /\ tpc' = [tpc EXCEPT ![t] = "done"]
    /\ tres' = [tres EXCEPT ![t] = "err"]

\* client.rs:27, 34, 61-65: send().await, which yields the response or fails
Send(t) ==
    /\ tpc[t] = "send"
    /\ \/ /\ tpc' = [tpc EXCEPT ![t] = "body"]
          /\ UNCHANGED <<permits, tholds, tres>>
       \/ ReturnErr(t)
    /\ UNCHANGED top
    /\ UNCHANGED <<statsVars, dbVars, runVars, queryVars, resolveVars, uiVars>>

\* client.rs:27, 34, 66-68: text().await, which yields the body or fails;
\* get_texts drops its permit right after (client.rs:68), fetch_text and
\* get_authors keep `_permit` until they return
ReadBody(t) ==
    /\ tpc[t] = "body"
    /\ \/ /\ tpc' = [tpc EXCEPT ![t] = "process"]
          /\ IF top[t] = "get_texts" THEN DropPermit(t)
             ELSE UNCHANGED <<permits, tholds>>
          /\ UNCHANGED tres
       \/ ReturnErr(t)
    /\ UNCHANGED top
    /\ UNCHANGED <<statsVars, dbVars, runVars, queryVars, resolveVars, uiVars>>

\* client.rs:28-29, 36-52, 70-83: the result is built from the body and
\* returned; a permit still owned is dropped with the scope
Process(t) ==
    /\ tpc[t] = "process"
    /\ DropPermit(t)
    /\ tpc' = [tpc EXCEPT ![t] = "done"]
    /\ tres' = [tres EXCEPT ![t] = "ok"]
    /\ UNCHANGED top
    /\ UNCHANGED <<statsVars, dbVars, runVars, queryVars, resolveVars, uiVars>>

InitClient == ClientIdle /\ StatsEmpty /\ DbIdle /\ RunIdle /\ QueryIdle /\ ResolveIdle /\ UiIdle

NextClient ==
    \/ \E t \in Tasks, op \in Ops : Call(t, op)
    \/ \E t \in Tasks : Acquire(t)
    \/ \E t \in Tasks : Send(t)
    \/ \E t \in Tasks : ReadBody(t)
    \/ \E t \in Tasks : Process(t)

SpecClient == InitClient /\ [][NextClient]_vars

\* Requests in flight: permit acquired, response body not yet fully read
InFlight == {t \in Tasks : tpc[t] \in {"send", "body"}}

\* C1: the number of requests in flight never exceeds the cap
C1_InFlightWithinCap == Cardinality(InFlight) <= MAX_CONCURRENT_REQUESTS

\* C1 witness: the cap is reached by different operations while another
\* caller waits for a permit
C1_Witness ==
    /\ Cardinality(InFlight) = MAX_CONCURRENT_REQUESTS
    /\ \E t \in Tasks : tpc[t] = "acquire"
    /\ \E t, u \in InFlight : top[t] # top[u]

\* C5: every fetch operation owns a permit while its request is in flight
\* and has released it when the body is read, before the body is processed.
C5_ReleasedBeforeProcessing ==
    \A t \in Tasks :
        /\ tpc[t] \in {"send", "body"} => tholds[t]
        /\ tpc[t] = "process" => ~tholds[t]

\* C6: every permit acquired is released on every exit path: no caller that
\* is outside an operation owns a permit, and when every operation has
\* finished, the available permits equal the cap.
C6_PermitsReleased ==
    /\ \A t \in Tasks : tpc[t] \in {"idle", "acquire", "done"} => ~tholds[t]
    /\ permits + Cardinality({t \in Tasks : tholds[t]}) = MAX_CONCURRENT_REQUESTS
    /\ (\A t \in Tasks : tpc[t] \in {"idle", "done"}) => permits = MAX_CONCURRENT_REQUESTS

\* C6 witness: every caller finished, one with a failed request and one
\* with a successful one
C6_Witness ==
    /\ \A t \in Tasks : tpc[t] = "done"
    /\ \E t \in Tasks : tres[t] = "err" /\ top[t] = "fetch_text"
    /\ \E t \in Tasks : tres[t] = "err" /\ top[t] = "get_texts"
    /\ \E t \in Tasks : tres[t] = "ok"
    /\ permits = MAX_CONCURRENT_REQUESTS

----------------------------------------------------------------------------
(* Stats and the tokenizer: what the counters count (SpecStats) *)

NonEmpty(w) == ~is_empty(w)

\* The non-empty Words of a document, in the order words() yields them
Tokens(c) == SelectSeq(words(c), NonEmpty)

RECURSIVE AllTokens(_)
\* The non-empty Words of a sequence of documents
AllTokens(cs) == IF cs = <<>> THEN <<>> ELSE Tokens(Head(cs)) \o AllTokens(Tail(cs))

\* The contents of the documents of s
ContentsOf(s) == [k \in 1..Len(s.texts) |-> s.texts[k].text]

Occurrences(w, toks) == Cardinality({i \in 1..Len(toks) : toks[i] = w})

\* add_word was called directly on `receiver`; the number of such calls
\* with a non-empty Word
IsDirect(receiver) == \E d \in DOMAIN direct : d[1] = receiver
DirectWords(receiver) ==
    LET ds == {d \in DOMAIN direct : d[1] = receiver /\ ~is_empty(d[2])}
    IN Sum([d \in ds |-> direct[d]], ds)

\* global_count of w in s, 0 for a word s has no entry for
GlobalCountOf(s, w) == IF w \in DOMAIN s.words THEN global_count(s.words[w]) ELSE 0

\* The counters of s are those of the token sequence toks
CountsMatch(s, toks) ==
    /\ s.word_count = Len(toks)
    /\ unique_word_count(s) = Cardinality(Range(toks))
    /\ DOMAIN s.words = Range(toks)
    /\ \A w \in DOMAIN s.words : global_count(s.words[w]) = Occurrences(w, toks)

\* C11: after folding any sequence of documents with add_text (merge folds
\* with add_text), word_count is the number of non-empty tokens of all the
\* documents, unique_word_count the number of distinct ones, which is the
\* size of the word table, and global_count(w) the occurrences of w.
C11_CountsMatchTokens ==
    /\ ~IsDirect("stats") => CountsMatch(stats, AllTokens(folded))
    /\ ~IsDirect("other") => CountsMatch(other, AllTokens(ContentsOf(other)))

\* C11 witness: three documents folded, one with a digit-only fragment,
\* and a word met three times or more
C11_Witness ==
    /\ ~IsDirect("stats")
    /\ Len(folded) >= 3
    /\ Doc3 \in Range(folded)
    /\ \E w \in DOMAIN stats.words : global_count(stats.words[w]) >= 3
    /\ unique_word_count(stats) >= 2

\* C12: every Word yielded by words() is non-empty and consists only of
\* lowercase alphabetic characters.
C12_WordsNonEmptyLowercase ==
    \A k \in 1..Len(folded) :
        LET ws == words(folded[k]) IN
        \A i \in 1..Len(ws) :
            /\ ws[i] # <<>>
            /\ \A j \in 1..Len(ws[i]) : ws[i][j] \in Lowercase

RECURSIVE StripTags(_)
\* The text between the tags of s: every <...> is replaced by a space
StripTags(s) ==
    IF s = <<>> THEN <<>>
    ELSE IF s[1] = "<" /\ \E i \in 2..Len(s) : s[i] = ">"
         THEN LET close == CHOOSE i \in 2..Len(s) :
                              s[i] = ">" /\ \A j \in 2..(i - 1) : s[j] # ">"
              IN <<" ">> \o StripTags(SubSeq(s, close + 1, Len(s)))
         ELSE <<s[1]>> \o StripTags(Tail(s))

\* C13: tokenizing discards markup: the Words of a document are the Words
\* of the text between its tags, no tag name among them.
C13_TagsYieldNoWord ==
    \A k \in 1..Len(folded) : words(folded[k]) = words(StripTags(folded[k]))

\* C14: the empty word is never recorded: no word table has an entry for
\* it, and word_count counts the non-empty tokens of the documents and the
\* non-empty words added directly, nothing else.
C14_EmptyWordNeverRecorded ==
    /\ <<>> \notin DOMAIN stats.words
    /\ <<>> \notin DOMAIN other.words
    /\ stats.word_count = Len(AllTokens(folded)) + DirectWords("stats")
    /\ other.word_count = Len(AllTokens(ContentsOf(other))) + DirectWords("other")

\* C14 witness: add_word was called with the empty Word, a document whose
\* tokenization yields an empty Word was folded, and merge was called
C14_Witness ==
    /\ <<"stats", <<>>>> \in DOMAIN direct
    /\ Doc3 \in Range(folded)
    /\ Len(stats.texts) > MaxTexts
    /\ stats.word_count > 0

\* What a.merge(b) leaves in r as documents: a's, then b's re-numbered
MergedTexts(a, b, r) ==
    /\ Len(r.texts) = Len(a.texts) + Len(b.texts)
    /\ \A k \in 1..Len(a.texts) : r.texts[k] = a.texts[k]
    /\ \A k \in 1..Len(b.texts) :
          r.texts[Len(a.texts) + k] = [b.texts[k] EXCEPT !.id = Some(Len(a.texts) + k)]

\* The counters of r are those of a plus those of b
CountsAdded(a, b, r) ==
    /\ r.word_count = a.word_count + b.word_count
    /\ \A w \in DOMAIN a.words \cup DOMAIN b.words \cup DOMAIN r.words :
          GlobalCountOf(r, w) = GlobalCountOf(a, w) + GlobalCountOf(b, w)

\* The counters of r are those of a plus the tokens of b's documents
TokensAdded(a, b, r) ==
    LET toks == AllTokens(ContentsOf(b)) IN
    /\ r.word_count = a.word_count + Len(toks)
    /\ \A w \in DOMAIN a.words \cup DOMAIN b.words \cup DOMAIN r.words :
          GlobalCountOf(r, w) = GlobalCountOf(a, w) + Occurrences(w, toks)

----------------------------------------------------------------------------
(* store_in_db and the queries read back (SpecPersist) *)

\* How often store_in_db issued the script w
Issued(w) == IF w \in DOMAIN wlog THEN wlog[w] ELSE 0

\* store_in_db returned Ok
StoreOk == storing /\ pc \in {"ok", "queried"}

\* The (word, text_id) pairs with the word a token of document text_id
TokenPairs ==
    UNION {{<<Tokens(folded[k])[i], k>> : i \in 1..Len(Tokens(folded[k]))} : k \in 1..Len(folded)}

\* C15: a successful store_in_db issued exactly one Text write per stored
\* document, keyed (text_id, author_id) with values (url, text), and exactly
\* one Word write per (word, text_id) pair with the word in that document,
\* its value the occurrences of the word in the document, never 0.
C15_OneWritePerRow ==
    StoreOk =>
        /\ \A w \in DOMAIN wlog : wlog[w] = 1
        /\ {w \in DOMAIN wlog : w[1] = "Text"} =
              {<<"Text", <<Unwrap(stats.texts[k].id), Unwrap(stats.texts[k].author_id)>>,
                 <<stats.texts[k].url, stats.texts[k].text>>>> : k \in 1..Len(stats.texts)}
        /\ Cardinality({w \in DOMAIN wlog : w[1] = "Text"}) = Len(stats.texts)
        /\ {w \in DOMAIN wlog : w[1] = "Word"} =
              {<<"Word", p, Occurrences(p[1], Tokens(folded[p[2]]))>> : p \in TokenPairs}
        /\ \A w \in DOMAIN wlog : w[1] = "Word" => w[3] >= 1

\* C15 witness: two documents stored, a word written with the count 2 for
\* one document and also written for the other
C15_Witness ==
    /\ StoreOk
    /\ Len(stats.texts) >= 2
    /\ \E w \in DOMAIN stats.words :
          /\ Issued(<<"Word", <<w, 1>>, 1>>) = 1
          /\ Issued(<<"Word", <<w, 2>>, 2>>) = 1
    /\ Cardinality(DOMAIN wlog) >= 5

\* The sum of the count column of the rows rs of a `word` query
SumCounts(rs) == Sum([r \in rs |-> r[2]], rs)

\* C16: round trip: after store_in_db into an empty store, `count-words`
\* reports word_count and unique_word_count, the counts `word <w>` returns
\* sum up to global_count(w), and `top <w>` reports global_count(w) for w.
C16_RoundTrip ==
    (IsSome(qrows) /\ store0 = EmptyStore) =>
        LET q == qrows[1][1]
            res == qrows[1][2]
        IN /\ q.cmd = <<"CountWords">> =>
                 res = Ok({<<stats.word_count, unique_word_count(stats)>>})
           /\ (q.cmd = <<"Word">> /\ Len(q.args) = 1) =>
                 /\ IsOk(res)
                 /\ SumCounts(res[2]) = GlobalCountOf(stats, to_lowercase(q.args[1]))
           /\ (q.cmd = <<"Top">> /\ Len(q.args) = 1) =>
                 /\ IsOk(res)
                 /\ \A w \in DOMAIN stats.words :
                       starts_with(w, to_lowercase(q.args[1])) =>
                           \E r \in res[2] : r[1] = w /\ r[2] = GlobalCountOf(stats, w)

\* C18: store_in_db returns success or a storage error; it never panics.
C18_StoreNeverPanics == pc # "panic"

----------------------------------------------------------------------------
(* SpecParse: Query::parse called on a line *)

\* The lines are made of up to MaxPieces pieces
MaxPieces == 5
Pieces == {CmdTop, <<"x">>, <<" ">>, <<"\t">>, <<Quote>>}

RECURSIVE Flatten(_)
Flatten(ss) == IF ss = <<>> THEN <<>> ELSE Head(ss) \o Flatten(Tail(ss))

Lines == {Flatten(ps) : ps \in SeqsUpTo(Pieces, MaxPieces)}

\* Query::parse(query)
Parse ==
    /\ presult = None
    /\ presult' = Some(parse(query))
    /\ UNCHANGED <<query, qrows>>
    /\ UNCHANGED <<resolveVars, uiVars>>
    /\ UNCHANGED <<clientVars, statsVars, dbVars, runVars>>

\* repl.rs:134-135: the Query that parse returned is evaluated on the store
EvalParsed ==
    /\ IsSome(presult)
    /\ IsOk(Unwrap(presult))
    /\ qrows = None
    /\ LET q == Unwrap(presult)[2] IN
        \E res \in eval(q, store) : qrows' = Some(<<q, res, scripts_run(q)>>)
    /\ UNCHANGED <<query, presult>>
    /\ UNCHANGED <<resolveVars, uiVars>>
    /\ UNCHANGED <<clientVars, statsVars, dbVars, runVars>>

\* Lines of a command word, known or not, and up to two arguments
CommandLines ==
    {c \o a : c \in DOMAIN Commands \cup {<<"x">>, <<"t", "o">>},
              a \in {<<>>, <<" ", "a">>, <<" ", "1">>, <<" ", "a", " ", "1">>,
                     <<" ", "1", " ", "a">>, <<" ", "2", " ", "1">>}}

InitParse ==
    /\ ClientIdle /\ StatsEmpty /\ RunIdle
    /\ store \in {EmptyStore, OldStore}
    /\ tx = None
    /\ store0 = store
    /\ wtodo = {}
    /\ storing = FALSE
    /\ wlog = EmptyMap
    /\ query \in Lines \cup CommandLines
    /\ presult = None
    /\ qrows = None
    /\ ResolveIdle /\ UiIdle

NextParse == Parse \/ EvalParsed

SpecParse == InitParse /\ [][NextParse]_vars

\* An argument as the line gives it: a token, or a string between quotes
ArgItems ==
    {[sep |-> s, quoted |-> FALSE, val |-> v] :
        s \in {<<" ">>, <<"\t">>, <<" ", " ">>}, v \in {<<"x">>, CmdTop}}
    \cup {[sep |-> s, quoted |-> TRUE, val |-> v] :
        s \in {<<" ">>, <<"\t">>}, v \in {<<>>, <<"x">>, <<" ">>, <<"x", " ", "x">>}}

\* A command word followed by zero, one or two arguments
Shapes ==
    {[cmd |-> c, args |-> as] :
        c \in {CmdTop, <<"x">>},
        as \in {<<>>} \cup {<<a>> : a \in ArgItems} \cup {<<a, b>> : a, b \in ArgItems}}

\* The line of a shape
RenderArg(a) == a.sep \o (IF a.quoted THEN <<Quote>> \o a.val \o <<Quote>> ELSE a.val)
Render(sh) == sh.cmd \o Flatten([i \in 1..Len(sh.args) |-> RenderArg(sh.args[i])])

\* C19: for a line made of an unquoted command word and arguments
\* separated by spaces or tabs, each a token or a double-quoted string,
\* parse returns Ok with cmd = QueryCommand::from(command word) and the
\* arguments in order, a quoted one without its quotes and otherwise verbatim.
C19_ParseKeepsArguments ==
    IsSome(presult) =>
        \A sh \in Shapes :
            Render(sh) = query =>
                Unwrap(presult) = Ok(Query_new(sh.cmd, [i \in 1..Len(sh.args) |-> sh.args[i].val]))

\* A double quote is opened and never closed: the quotes are odd in number
UnclosedQuote(q) == Cardinality({i \in 1..Len(q) : q[i] = Quote}) % 2 = 1

\* The command word is complete, a space or tab after it, before any quote
CommandBeforeQuotes(q) ==
    LET t == trim(q) IN
    \E i, j \in 1..Len(t) :
        /\ i < j
        /\ t[i] \notin {" ", "\t", Quote}
        /\ t[j] \in {" ", "\t"}
        /\ \A k \in 1..j : t[k] # Quote

\* The line begins with a non-empty quoted string
QuotedStringFirst(q) ==
    LET t == trim(q) IN
    /\ Len(t) >= 3
    /\ t[1] = Quote
    /\ t[2] # Quote
    /\ \E k \in 3..Len(t) : t[k] = Quote

EmptyQuotedFirst(q) ==
    LET t == trim(q) IN
    /\ Len(t) >= 2
    /\ t[1] = Quote
    /\ t[2] = Quote
    /\ Len(t) >= 3 => t[3] \in {" ", "\t"}

\* C21: a line whose first token, where the command stands, is the empty
\* quoted string "" is answered Err(MissingCommand), whatever tokens follow.
C21_EmptyQuotedCommandIsError ==
    (IsSome(presult) /\ EmptyQuotedFirst(query)) =>
        Unwrap(presult) = Err(<<"MissingCommand">>)

\* The word w, not quoted and not a known command name
UnknownWord(w) ==
    /\ w # <<>>
    /\ \A i \in 1..Len(w) : w[i] \notin {" ", "\t", Quote}
    /\ w \notin DOMAIN Commands

\* C22: an unquoted word that is not a known command name is parsed to
\* Ok with cmd = Unknown(word), and eval of that Query returns
\* Err(UnknownQuery(word)) and runs no script on the store.
C22_UnknownCommandIsTyped ==
    LET word == trim(query) IN
    UnknownWord(word) =>
        /\ IsSome(presult) => Unwrap(presult) = Ok([cmd |-> <<"Unknown", word>>, args |-> <<>>])
        /\ IsSome(qrows) =>
              /\ Unwrap(qrows)[2] = Err(<<"UnknownQuery", word>>)
              /\ Unwrap(qrows)[3] = <<>>

\* C22 witness: an unknown word between spaces was parsed and evaluated on
\* a store with rows
C22_Witness ==
    /\ UnknownWord(trim(query))
    /\ Len(trim(query)) >= 2
    /\ Len(query) > Len(trim(query))
    /\ store = OldStore
    /\ IsSome(qrows)
    /\ Unwrap(qrows)[2][1] = "Err"

\* C23: eval of a Query that parse returned, its command not quit or exit,
\* returns Ok(rows) or Err(e) and never panics, whatever its arguments.
C23_EvalNeverPanics ==
    (IsSome(qrows) /\ Unwrap(qrows)[1].cmd \notin {<<"Quit">>, <<"Exit">>}) =>
        Unwrap(qrows)[2][1] \in {"Ok", "Err"}

\* The ids of the texts of db that have a word starting with prefix
TextsWithPrefix(db, prefix) ==
    {t[1] : t \in {x \in DOMAIN db.Text :
                    \E k \in DOMAIN db.Word :
                        k[2] = x[1] /\ starts_with(k[1], to_lowercase(prefix))}}

\* Every text of db has the row of its author
AuthorsStored(db) == \A t \in DOMAIN db.Text : \E a \in DOMAIN db.Author : a[1] = t[2]

\* C24: in a store that holds the authors of its texts, `texts <prefix>` and `texts <prefix> <limit>` return the texts that
\* have a word starting with <prefix>, as many of them as the limit allows,
\* and `texts` alone lists every text.  The prefix is a word, not a number.
C24_TextsTakesPrefix ==
    (IsSome(qrows) /\ Unwrap(qrows)[1].cmd = <<"Texts">>) =>
        LET q == Unwrap(qrows)[1]
            res == Unwrap(qrows)[2]
            ids == {r[1] : r \in res[2]}
        IN /\ IsOk(res)
           /\ (q.args = <<>> /\ AuthorsStored(store)) => ids = {t[1] : t \in DOMAIN store.Text}
           /\ (q.args # <<>> /\ parse_usize(q.args[1]) = None) =>
                LET with == TextsWithPrefix(store, q.args[1])
                    limit == optional_at(q.args, 1)
                IN /\ ids \subseteq with
                   /\ IF IsSome(limit) /\ Unwrap(limit) < Cardinality(with)
                      THEN Cardinality(ids) = Unwrap(limit)
                      ELSE ids = with

----------------------------------------------------------------------------
(* SpecResolve: get_authors and get_texts on the page they have read *)

\* A page has at most MaxElems option and link elements
MaxElems == 2

\* HttpStatsClient::BASE_URL
BASE_URL == <<"https://thelatinlibrary.com/">>

\* HttpStatsClient::path_to_url
path_to_url(path) == BASE_URL \o trim(path)

\* An element of a page: its tag, the attribute the operation reads (value
\* of an option, href of a link) and its inner HTML
Elems ==
    {[tag |-> t, attr |-> a, inner |-> n] :
        t \in {"option", "a"},
        a \in {None, Some(<<"p">>), Some(<<" ", "p">>)},
        n \in {<<"n", " ">>}}

\* A page: `marker` tells whether the container the selector names is in
\* the document (form[name=myform] select[name=dest] of the catalogue page,
\* div.work table tr td of an author page); its elements stand in the
\* container when there is one and elsewhere in the document when not
Pages == {[marker |-> m, elems |-> es] : m \in BOOLEAN, es \in SeqsUpTo(Elems, MaxElems)}

IsTag(e, tag) == e.tag = tag

\* html.select(&selector): the elements with the tag inside the container,
\* in document order
select(pg, tag) ==
    IF pg.marker
    THEN SelectSeq(pg.elems, LAMBDA e : IsTag(e, tag))
    ELSE <<>>

\* client.rs:36-52: get_authors once the body is read
get_authors(pg) ==
    LET sel == select(pg, "option") IN
    IF \E i \in 1..Len(sel) : sel[i].attr = None
    THEN <<"Panic", "unwrap on None">>
    ELSE Ok([i \in 1..Len(sel) |->
                [name |-> trim(sel[i].inner),
                 url |-> path_to_url(Unwrap(sel[i].attr)),
                 texts |-> <<>>]])

\* client.rs:70-83: get_texts once the body is read
get_texts(pg) ==
    LET sel == select(pg, "a") IN
    IF \E i \in 1..Len(sel) : sel[i].attr = None
    THEN <<"Panic", "unwrap on None">>
    ELSE Ok([i \in 1..Len(sel) |->
                [name |-> trim(sel[i].inner),
                 url |-> path_to_url(trim(Unwrap(sel[i].attr)))]])

GetAuthors ==
    /\ listing = None
    /\ listing' = Some(<<"get_authors", get_authors(page)>>)
    /\ UNCHANGED <<page, uiVars>>
    /\ UNCHANGED <<clientVars, statsVars, dbVars, runVars, queryVars>>

GetTexts ==
    /\ listing = None
    /\ listing' = Some(<<"get_texts", get_texts(page)>>)
    /\ UNCHANGED <<page, uiVars>>
    /\ UNCHANGED <<clientVars, statsVars, dbVars, runVars, queryVars>>

InitResolve ==
    /\ ClientIdle /\ StatsEmpty /\ DbIdle /\ RunIdle /\ QueryIdle /\ UiIdle
    /\ page \in Pages
    /\ listing = None

NextResolve == GetAuthors \/ GetTexts

SpecResolve == InitResolve /\ [][NextResolve]_vars

\* C25: get_texts on a page without work links returns Ok with an empty
\* listing, and get_authors on a catalogue page without the author
\* form/select fails with an error instead of returning an empty list.
C25_MissingMarkerIsFatal ==
    /\ (listing # None /\ Unwrap(listing)[1] = "get_texts"
            /\ \A i \in 1..Len(page.elems) : page.elems[i].tag # "a") =>
          Unwrap(listing)[2] = Ok(<<>>)
    /\ (listing # None /\ Unwrap(listing)[1] = "get_authors" /\ ~page.marker) =>
          Unwrap(listing)[2][1] # "Ok"

----------------------------------------------------------------------------
(* SpecUi: the search application, ui/src/app.rs and ui/src/search.rs.  The  *)
(* searches issued by search_command run as tasks; each delivers one        *)
(* SearchCompleted message, in any order.                                   *)

\* At most MaxSearches searches are issued and MaxEdits input and setting
\* messages handled
MaxSearches == 3
MaxEdits == 2

\* SearchKind::all_kinds, and the modes of SearchMode::all_modes picked in
\* the model: the default and one other
Kinds == {"Word", "Author", "Text"}
Modes == {"Contains", "StartsWith"}

\* Terms typed into the search field
Terms == {<<"a">>}

\* Search::new
Search_new(kind, term, mode, is_case_sensitive) ==
    [kind |-> kind, term |-> term, mode |-> mode, is_case_sensitive |-> is_case_sensitive]

\* SearchState::default
SearchState_default ==
    [active_searches |-> <<>>, is_case_sensitive |-> TRUE,
     search_term |-> <<>>, search_results |-> <<>>]

\* App::new; search_state[k] is the SearchState of kind k (author_search,
\* text_search, word_search)
App_new ==
    [current_search_kind |-> "Word", current_search_mode |-> "StartsWith",
     search_state |-> [k \in Kinds |-> SearchState_default]]

\* SearchState::started_search
started_search(st, search) == [st EXCEPT !.active_searches = Append(@, search)]

\* SearchState::ended_search: retain(|s| s != search)
ended_search(st, search) ==
    [st EXCEPT !.active_searches = SelectSeq(@, LAMBDA x : x # search)]

\* SearchState::update_search, update_search_results, update_case_sensitive
update_search(st, term) == [st EXCEPT !.search_term = term]
update_search_results(st, rows) == [st EXCEPT !.search_results = rows]
update_case_sensitive(st, b) == [st EXCEPT !.is_case_sensitive = b]

\* SearchState::is_searching
is_searching(st) == st.active_searches # <<>>

\* App::current_search
current_search(a) ==
    LET st == a.search_state[a.current_search_kind] IN
    Search_new(a.current_search_kind, st.search_term, a.current_search_mode,
               st.is_case_sensitive)

\* App::search_command: the state change; the task is the new entry of `sent`
search_command(a) ==
    LET search == current_search(a) IN
    [a EXCEPT !.search_state[search.kind] = started_search(@, search)]

\* The rows the store answers a search with, decoded
RowsOf(search) == <<search>>

\* What the task of a search delivers: Ok(SearchRows) whose rows decode
\* ("rows") or do not ("bad_rows"), or Err(SearchError) ("error")
Deliveries == {"rows", "bad_rows", "error"}
SearchResultOf(search, o) ==
    CASE o = "rows" -> Ok([search |-> search, decoded |-> Ok(RowsOf(search))])
      [] o = "bad_rows" -> Ok([search |-> search, decoded |-> Err(<<"MissingColumn">>)])
      [] o = "error" -> Err(<<"Db">>)

\* App::update_search_results: the App after the call.  `rows.try_into()?`
\* returns early, after ended_search, when the rows do not decode
App_update_search_results(a, result) ==
    IF IsOk(result)
    THEN LET rows == result[2]
             k == rows.search.kind
             ended == [a EXCEPT !.search_state[k] = ended_search(@, rows.search)]
         IN IF IsOk(rows.decoded)
            THEN [ended EXCEPT !.search_state[k] = update_search_results(@, rows.decoded[2])]
            ELSE ended
    ELSE a

\* Message::InputChanged, SearchKindChanged, SearchModeChanged, CaseSensitiveChanged
InputChanged(term) ==
    /\ nedits < MaxEdits
    /\ nedits' = nedits + 1
    /\ app' = [app EXCEPT !.search_state[app.current_search_kind] = update_search(@, term)]
    /\ UNCHANGED <<sent, outcomes, resolveVars>>
    /\ UNCHANGED <<clientVars, statsVars, dbVars, runVars, queryVars>>

SearchKindChanged(kind) ==
    /\ nedits < MaxEdits
    /\ nedits' = nedits + 1
    /\ app' = [app EXCEPT !.current_search_kind = kind]
    /\ UNCHANGED <<sent, outcomes, resolveVars>>
    /\ UNCHANGED <<clientVars, statsVars, dbVars, runVars, queryVars>>

SearchModeChanged(mode) ==
    /\ nedits < MaxEdits
    /\ nedits' = nedits + 1
    /\ app' = [app EXCEPT !.current_search_mode = mode]
    /\ UNCHANGED <<sent, outcomes, resolveVars>>
    /\ UNCHANGED <<clientVars, statsVars, dbVars, runVars, queryVars>>

CaseSensitiveChanged(b) ==
    /\ nedits < MaxEdits
    /\ nedits' = nedits + 1
    /\ app' = [app EXCEPT !.search_state[app.current_search_kind] = update_case_sensitive(@, b)]
    /\ UNCHANGED <<sent, outcomes, resolveVars>>
    /\ UNCHANGED <<clientVars, statsVars, dbVars, runVars, queryVars>>

\* Message::Search: search_command
Search ==
    /\ Len(sent) < MaxSearches
    /\ sent' = Append(sent, current_search(app))
    /\ outcomes' = Append(outcomes, "pending")
    /\ app' = search_command(app)
    /\ UNCHANGED <<nedits, resolveVars>>
    /\ UNCHANGED <<clientVars, statsVars, dbVars, runVars, queryVars>>

\* Message::SearchCompleted(result), the result of the i-th search issued
SearchCompleted(i, o) ==
    /\ outcomes[i] = "pending"
    /\ outcomes' = [outcomes EXCEPT ![i] = o]
    /\ app' = App_update_search_results(app, SearchResultOf(sent[i], o))
    /\ UNCHANGED <<sent, nedits, resolveVars>>
    /\ UNCHANGED <<clientVars, statsVars, dbVars, runVars, queryVars>>

InitUi ==
    /\ ClientIdle /\ StatsEmpty /\ DbIdle /\ RunIdle /\ QueryIdle /\ ResolveIdle
    /\ app = App_new
    /\ sent = <<>>
    /\ outcomes = <<>>
    /\ nedits = 0

NextUi ==
    \/ \E term \in Terms : InputChanged(term)
    \/ \E kind \in Kinds : SearchKindChanged(kind)
    \/ \E mode \in Modes : SearchModeChanged(mode)
    \/ \E b \in BOOLEAN : CaseSensitiveChanged(b)
    \/ Search
    \/ \E i \in 1..Len(sent), o \in Deliveries : SearchCompleted(i, o)

SpecUi == InitUi /\ [][NextUi]_vars

\* The searches of kind k issued and not yet delivered
Undelivered(k) == {i \in 1..Len(sent) : sent[i].kind = k /\ outcomes[i] = "pending"}

\* C26: while a search issued for a kind has not delivered its
\* SearchCompleted message, is_searching() of that kind's SearchState is
\* true, also when the same search was submitted more than once and only
\* one of them has completed.
C26_SearchingWhileInFlight ==
    \A k \in Kinds : Undelivered(k) # {} => is_searching(app.search_state[k])

\* Every search issued has delivered its SearchCompleted message
AllDelivered == sent # <<>> /\ \A i \in 1..Len(sent) : outcomes[i] # "pending"

\* C27: once every search issued has delivered its SearchCompleted
\* message, with Ok rows or with an Err, is_searching() is false for every
\* search kind.
C27_IndicatorCleared ==
    AllDelivered => \A k \in Kinds : ~is_searching(app.search_state[k])

\* The searches of kind k issued, and the last of them
IssuedOf(k) == {i \in 1..Len(sent) : sent[i].kind = k}
LastIssued(k) == CHOOSE i \in IssuedOf(k) : \A j \in IssuedOf(k) : j <= i

\* C28: when the searches issued have all completed with rows, the
\* results a kind's SearchState holds are those of the search of that kind
\* issued last, whatever the order of completion.
C28_LatestSearchWins ==
    (sent # <<>> /\ \A i \in 1..Len(sent) : outcomes[i] = "rows") =>
        \A k \in Kinds :
            IssuedOf(k) # {} =>
                app.search_state[k].search_results = RowsOf(sent[LastIssued(k)])

----------------------------------------------------------------------------
(* fetch_and_store_stats: the order of the document fetches *)

\* Document a stands before document b in the catalogue: by author, then
\* by work within the author
CatalogueBefore(a, b) ==
    \/ a.author_id < b.author_id
    \/ a.author_id = b.author_id /\ a.url[3] < b.url[3]

\* The document requests in flight
DocRequests == {r \in inflight : r[1] = "doc"}

\* C29: the documents are listed in catalogue order and fetched one after
\* another: at most one document request is in flight, the request of a
\* document is in flight only when every document before it is fetched and
\* folded, and the k-th listed document has text_id k.
C29_FetchesOneByOne ==
    /\ Cardinality(DocRequests) <= 1
    /\ \A r \in DocRequests :
          /\ completed = [i \in 1..(r[2] - 1) |-> i]
          /\ Len(stats.texts) = r[2] - 1
    /\ \A i \in 1..Len(completed) : completed[i] = i /\ TextIdOfDoc(i) = i
    /\ \A i, j \in 1..Len(docs) : i < j => CatalogueBefore(docs[i], docs[j])

\* C29 witness: the third document, of the second author, is requested
\* while the two before it are folded
C29_Witness ==
    /\ DocRequests = {<<"doc", 3>>}
    /\ Len(stats.texts) = 2
    /\ docs[1].author_id # docs[3].author_id
    /\ TextIdOfDoc(2) = 2

----------------------------------------------------------------------------
(* WordStats inside a Stats *)

\* text_ids is the key set of count, and every count is at least 1
WordStatsOk(s) ==
    \A w \in DOMAIN s.words :
        /\ s.words[w].text_ids = DOMAIN s.words[w].count
        /\ \A t \in DOMAIN s.words[w].count : s.words[w].count[t] >= 1

\* The count of word w in document t, 0 when the table has no such entry
CountIn(s, w, t) == IF w \in DOMAIN s.words THEN count(s.words[w], t) ELSE 0

\* A step that folds documents into r leaves the counts of the documents
\* folded before unchanged
EarlierCountsKept(r, rnext) ==
    Len(rnext.texts) > Len(r.texts) =>
        \A w \in DOMAIN rnext.words, t \in 1..Len(r.texts) :
            CountIn(rnext, w, t) = CountIn(r, w, t)

\* C30: after any sequence of add_word, add_text and merge calls, every
\* WordStats of the word table has text_ids equal to the key set of its
\* count map and every count at least 1, and folding a later document
\* leaves the counts of all earlier documents unchanged.
C30_WordStatsConsistent ==
    /\ [](WordStatsOk(stats) /\ WordStatsOk(other))
    /\ [][EarlierCountsKept(stats, stats') /\ EarlierCountsKept(other, other')]_vars

\* C30 witness: after add_word and merge, a word is counted in three
\* documents, twice in one of them
C30_Witness ==
    /\ IsDirect("stats")
    /\ Len(stats.texts) > MaxTexts
    /\ \E w \in DOMAIN stats.words :
          /\ Cardinality(stats.words[w].text_ids) >= 3
          /\ \E t \in stats.words[w].text_ids : stats.words[w].count[t] >= 2

====
